---------------------------- MODULE Spec2Model ----------------------------
(***************************************************************************)
(* Register-level control driver of the HSI accelerator                    *)
(* (src/sw/hsi_accel_regs.h, src/sw/hsi_accel.h, src/sw/hsi_accel.c).      *)
(*                                                                         *)
(* A uint32_t is modelled as the set of its one-bits (a subset of 0..31),  *)
(* so that shifts drop the bits that leave the 32-bit word and masks are   *)
(* intersections.  The driver runs against a register block whose STATUS   *)
(* reacts to COMMAND writes and to the accelerator's own progress; every   *)
(* register access is one atomic step and the device may step between two  *)
(* accesses of the same driver call.                                       *)
(***************************************************************************)
EXTENDS Naturals, Sequences, FiniteSets

VARIABLES
    opcode,          \* OP_CODE register   (word)
    num_bands,       \* NUM_BANDS register (word)
    status,          \* STATUS register    (word)
    pc,              \* position of the driver: "idle", "init_1", "cfg_1", "wait"
    op,              \* name of the driver call in progress / last returned
    arg,             \* its arguments
    ret,             \* value returned by the last call that returned (word)
    acc,             \* register accesses issued by the call `op`, in order
    timeout_ciclos,  \* local of hsi_accel_wait_done: remaining budget
    mode,            \* "free": any call sequence; "scripted": calls of `script`
    script,          \* calls the scripted caller has still to make
    hist,            \* scripted caller: what it observed, see Observed
    loop_i,          \* demo application: the counter i of its polling loop
    sim_pc,          \* simulation harness: position in main
    main_time,       \* simulation harness: simulated time
    n_eval,          \* simulation harness: evaluations of the DUT so far
    gotFinish,       \* simulation harness: the DUT has signalled finish
    tfp,             \* simulation harness: the trace file, "none"/"open"/"closed"
    coverage         \* simulation harness: coverage.dat has been written

vars == <<opcode, num_bands, status, pc, op, arg, ret, acc, timeout_ciclos,
          mode, script, hist, loop_i, sim_pc, main_time, n_eval, gotFinish, tfp,
          coverage>>
regs == <<opcode, num_bands, status>>
\* the state of the simulation harness, a program of its own
simvars == <<sim_pc, main_time, n_eval, gotFinish, tfp, coverage>>

---------------------------------------------------------------------------
(* Bounds of the model *)

\* largest budget handed to hsi_accel_wait_done
MaxTimeout == 3

---------------------------------------------------------------------------
(* 32-bit words *)

WORD_BITS == 32
BitIdx    == 0 .. (WORD_BITS - 1)

Zero == {}
One  == {0}
AllOnes == BitIdx

\* w << k on uint32_t: bits shifted past bit 31 are lost
Shl(w, k) == {b + k : b \in {x \in w : x + k < WORD_BITS}}
\* w >> k on uint32_t
Shr(w, k) == {b - k : b \in {x \in w : x >= k}}
\* a & b
BitAnd(a, b) == a \cap b
\* conversion of a uint32_t to bool: 0 -> false (0), nonzero -> true (1)
ToBool(w) == IF w = Zero THEN Zero ELSE One

\* the word of a small natural number (used for 4-bit codes)
RECURSIVE Pow2(_)
Pow2(k) == IF k = 0 THEN 1 ELSE 2 * Pow2(k - 1)
NatWord(n) == {b \in 0 .. 7 : (n \div Pow2(b)) % 2 = 1}


---------------------------------------------------------------------------
(* Register map and bit fields: hsi_accel_regs.h *)

HSI_ACCEL_OPCODE_OFFSET      == 0
HSI_ACCEL_NUM_BANDS_OFFSET   == 4
HSI_ACCEL_COMMAND_OFFSET     == 8
HSI_ACCEL_STATUS_OFFSET      == 12
HSI_ACCEL_FIFO_STATUS_OFFSET == 16

HSI_ACCEL_CMD_START_BIT       == 0
HSI_ACCEL_CMD_CLEAR_DONE_BIT  == 1
HSI_ACCEL_CMD_CLEAR_ERROR_BIT == 2

HSI_ACCEL_STATUS_DONE_BIT    == 0
HSI_ACCEL_STATUS_ERROR_SHIFT == 1
HSI_ACCEL_STATUS_ERROR_WIDTH == 4
\* ((1u << WIDTH) - 1) << SHIFT
HSI_ACCEL_STATUS_ERROR_MASK  ==
    Shl({b \in BitIdx : b < HSI_ACCEL_STATUS_ERROR_WIDTH}, HSI_ACCEL_STATUS_ERROR_SHIFT)
HSI_ACCEL_STATUS_BUSY_BIT    == 8

Offsets == {HSI_ACCEL_OPCODE_OFFSET, HSI_ACCEL_NUM_BANDS_OFFSET,
            HSI_ACCEL_COMMAND_OFFSET, HSI_ACCEL_STATUS_OFFSET,
            HSI_ACCEL_FIFO_STATUS_OFFSET}

---------------------------------------------------------------------------
(* The accelerator behind the register block.  Its RTL is not part of the  *)
(* driver sources; it is modelled from the register map and the protocol   *)
(* description (sections 3, 4.1 and 6 of the specification).               *)

\* the 16 codes of the 4-bit ERROR_CODE field
ErrCodes == 0 .. 15
\* the codes an operation of the modelled accelerator finishes with
FinishCodes == {0, 1, 15}
\* what the device may present in the reserved bits 5..7 and 9..31
ReservedPatterns == {{}, {9}, {5, 6, 7, 31}}
\* the reserved bits a finished operation presents
FinishReserved == {{}, {9}}
\* values a caller writes to OPCODE (1, 0xFFFFFFFF) and to NUM_BANDS
\* (2, 0xFFFFFFFF)
OpcodeValues == {One, AllOnes}
BandsValues  == {{1}, AllOnes}

\* a STATUS word from its fields
StatusWord(done, err, busy, rsv) ==
    (IF done THEN {HSI_ACCEL_STATUS_DONE_BIT} ELSE {})
    \cup Shl(NatWord(err), HSI_ACCEL_STATUS_ERROR_SHIFT)
    \cup (IF busy THEN {HSI_ACCEL_STATUS_BUSY_BIT} ELSE {})
    \cup rsv

\* STATUS words of a finished operation: DONE=1, BUSY=0, any code
Finished == {StatusWord(TRUE, e, FALSE, r) : e \in FinishCodes, r \in FinishReserved}

\* reaction to START: the operation is in flight (flags are sticky until
\* cleared), or it has already finished when the next access is served
StartOutcomes(s) == {s \cup {HSI_ACCEL_STATUS_BUSY_BIT}} \cup Finished

\* STATUS after the device has sampled a COMMAND write of v: each command
\* bit is interpreted on its own, a 0 bit is a no-op
CommandOutcomes(s, v) ==
    LET s1 == IF HSI_ACCEL_CMD_CLEAR_DONE_BIT \in v
              THEN s \ {HSI_ACCEL_STATUS_DONE_BIT} ELSE s
        s2 == IF HSI_ACCEL_CMD_CLEAR_ERROR_BIT \in v
              THEN s1 \ HSI_ACCEL_STATUS_ERROR_MASK ELSE s1
    IN  IF HSI_ACCEL_CMD_START_BIT \in v THEN StartOutcomes(s2) ELSE {s2}

\* a 32-bit write reaching the register block
BusWrite(off, v) ==
    /\ opcode'    = IF off = HSI_ACCEL_OPCODE_OFFSET THEN v ELSE opcode
    /\ num_bands' = IF off = HSI_ACCEL_NUM_BANDS_OFFSET THEN v ELSE num_bands
    /\ status' \in IF off = HSI_ACCEL_COMMAND_OFFSET
                   THEN CommandOutcomes(status, v) ELSE {status}

\* what 32-bit reads of the register block can return in the current state;
\* a read of the write-only COMMAND register is not meaningful
BusViews ==
    {[o \in Offsets |->
        IF o = HSI_ACCEL_OPCODE_OFFSET THEN opcode
        ELSE IF o = HSI_ACCEL_NUM_BANDS_OFFSET THEN num_bands
        ELSE IF o = HSI_ACCEL_STATUS_OFFSET THEN status
        ELSE IF o = HSI_ACCEL_COMMAND_OFFSET THEN c
        ELSE Zero] : c \in {Zero, AllOnes}}

\* the operation in flight finishes
DeviceFinish ==
    /\ HSI_ACCEL_STATUS_BUSY_BIT \in status
    /\ status' \in Finished
    /\ UNCHANGED <<opcode, num_bands, pc, op, arg, ret, acc, timeout_ciclos,
                   mode, script, hist, loop_i, simvars>>


---------------------------------------------------------------------------
(* Low-level accessors: hsi_accel_regs.h.  A function that writes is an    *)
(* action over the registers and the access log `acc` (log: the accesses   *)
(* the running call has issued so far).  A function that reads takes the   *)
(* bus view it is served from and yields the accesses it issued (log) and  *)
(* the value it returns (val).                                             *)

Access(rw, off, v) == [rw |-> rw, off |-> off, val |-> v]

hsi_accel_write_reg(log, off, v) ==
    /\ acc' = Append(log, Access("W", off, v))
    /\ BusWrite(off, v)

hsi_accel_read_reg(bus, off) ==
    [log |-> <<Access("R", off, bus[off])>>, val |-> bus[off]]

\* a setter that keeps only the low byte of the value
hsi_accel_set_opcode_byte(log, code) ==
    hsi_accel_write_reg(log, HSI_ACCEL_OPCODE_OFFSET, BitAnd(code, 0 .. 7))

hsi_accel_set_opcode(log, code) ==
    hsi_accel_write_reg(log, HSI_ACCEL_OPCODE_OFFSET, code)

hsi_accel_get_opcode(bus) ==
    hsi_accel_read_reg(bus, HSI_ACCEL_OPCODE_OFFSET)

\* a setter pasted from the OPCODE one with the offset left as it was
hsi_accel_set_num_bands_opcode(log, nb) ==
    hsi_accel_write_reg(log, HSI_ACCEL_OPCODE_OFFSET, nb)

hsi_accel_set_num_bands(log, nb) ==
    hsi_accel_write_reg(log, HSI_ACCEL_NUM_BANDS_OFFSET, nb)

hsi_accel_get_num_bands(bus) ==
    hsi_accel_read_reg(bus, HSI_ACCEL_NUM_BANDS_OFFSET)

\* a start that also acknowledges the previous completion: START | CLEAR_DONE
hsi_accel_start_and_clear(log) ==
    hsi_accel_write_reg(log, HSI_ACCEL_COMMAND_OFFSET,
                        Shl(One, HSI_ACCEL_CMD_START_BIT)
                        \cup Shl(One, HSI_ACCEL_CMD_CLEAR_DONE_BIT))

hsi_accel_start(log) ==
    hsi_accel_write_reg(log, HSI_ACCEL_COMMAND_OFFSET,
                        Shl(One, HSI_ACCEL_CMD_START_BIT))

\* a clear that writes a one onto the DONE flag of STATUS itself
hsi_accel_clear_done_status(log) ==
    hsi_accel_write_reg(log, HSI_ACCEL_STATUS_OFFSET,
                        Shl(One, HSI_ACCEL_STATUS_DONE_BIT))

\* a clear that writes the bit number instead of the bit mask
hsi_accel_clear_done_bitnumber(log) ==
    hsi_accel_write_reg(log, HSI_ACCEL_COMMAND_OFFSET,
                        NatWord(HSI_ACCEL_CMD_CLEAR_DONE_BIT))

hsi_accel_clear_done(log) ==
    hsi_accel_write_reg(log, HSI_ACCEL_COMMAND_OFFSET,
                        Shl(One, HSI_ACCEL_CMD_CLEAR_DONE_BIT))

\* a clear that acknowledges both flags: CLEAR_DONE | CLEAR_ERROR
hsi_accel_clear_error_both(log) ==
    hsi_accel_write_reg(log, HSI_ACCEL_COMMAND_OFFSET,
                        Shl(One, HSI_ACCEL_CMD_CLEAR_DONE_BIT)
                        \cup Shl(One, HSI_ACCEL_CMD_CLEAR_ERROR_BIT))

hsi_accel_clear_error(log) ==
    hsi_accel_write_reg(log, HSI_ACCEL_COMMAND_OFFSET,
                        Shl(One, HSI_ACCEL_CMD_CLEAR_ERROR_BIT))

\* a status accessor that reads the register next to STATUS
hsi_accel_get_status_command(bus) ==
    hsi_accel_read_reg(bus, HSI_ACCEL_COMMAND_OFFSET)

\* a status accessor that reuses the value its caller read last
hsi_accel_get_status_cached(bus) ==
    IF acc # <<>> /\ acc[Len(acc)].rw = "R"
                 /\ acc[Len(acc)].off = HSI_ACCEL_STATUS_OFFSET
    THEN [log |-> <<>>, val |-> acc[Len(acc)].val]
    ELSE hsi_accel_read_reg(bus, HSI_ACCEL_STATUS_OFFSET)

hsi_accel_get_status(bus) ==
    hsi_accel_read_reg(bus, HSI_ACCEL_STATUS_OFFSET)

hsi_accel_is_done(bus) ==
    LET r == hsi_accel_get_status(bus)
    IN  [log |-> r.log,
         val |-> ToBool(BitAnd(Shr(r.val, HSI_ACCEL_STATUS_DONE_BIT), One))]

\* a decoder that masks the field and forgets to shift it down
hsi_accel_get_error_unshifted(bus) ==
    LET r == hsi_accel_get_status(bus)
    IN  [log |-> r.log, val |-> BitAnd(r.val, HSI_ACCEL_STATUS_ERROR_MASK)]

hsi_accel_get_error(bus) ==
    LET r == hsi_accel_get_status(bus)
    IN  [log |-> r.log,
         val |-> Shr(BitAnd(r.val, HSI_ACCEL_STATUS_ERROR_MASK),
                     HSI_ACCEL_STATUS_ERROR_SHIFT)]

hsi_accel_is_busy(bus) ==
    LET r == hsi_accel_get_status(bus)
    IN  [log |-> r.log,
         val |-> ToBool(BitAnd(Shr(r.val, HSI_ACCEL_STATUS_BUSY_BIT), One))]

\* hsi_accel.h: hsi_accel_error
hsi_accel_error(bus) == hsi_accel_get_error(bus)

\* a launch that acknowledges the previous error as it starts:
\* START | CLEAR_ERROR
hsi_accel_launch_clearing(log) ==
    hsi_accel_write_reg(log, HSI_ACCEL_COMMAND_OFFSET,
                        Shl(One, HSI_ACCEL_CMD_START_BIT)
                        \cup Shl(One, HSI_ACCEL_CMD_CLEAR_ERROR_BIT))

\* hsi_accel.h: hsi_accel_launch
hsi_accel_launch(log) == hsi_accel_start(log)


---------------------------------------------------------------------------
(* The caller.  A call is [op, w, t]: the function, its word arguments and *)
(* (for hsi_accel_wait_done) its budget.  A free caller makes any call     *)
(* when the driver is idle; a scripted caller makes the calls of `script`  *)
(* in order and records what it observed: first the STATUS the device held *)
(* when the script began (op "begin"), then for every call that returned   *)
(* the function, its arguments, the value returned, the STATUS held at the *)
(* return and the register accesses the call issued.                       *)

Call(o, w, t) == [op |-> o, w |-> w, t |-> t]
NoArg(o)      == Call(o, <<>>, 0)

\* initialize(); configure(0x1, 2); launch(); wait_done(1); error_code();
\* is_busy()
ScenarioDone ==
    <<NoArg("init"), Call("configure", <<One, {1}>>, 0), NoArg("launch"),
      Call("wait_done", <<>>, 1), NoArg("error"), NoArg("is_busy")>>

\* ... wait_done(1); error_code(); clear_error(); error_code(); is_done();
\* clear_done(); is_done()
ScenarioError ==
    <<NoArg("init"), Call("configure", <<One, {1}>>, 0), NoArg("launch"),
      Call("wait_done", <<>>, 1), NoArg("error"), NoArg("clear_error"),
      NoArg("error"), NoArg("is_done"), NoArg("clear_done"), NoArg("is_done")>>

\* launch(); get_status(); is_done(); is_busy(): a status inspection made of
\* separate accessor calls while the operation is in flight
ScenarioInspect ==
    <<NoArg("launch"), NoArg("get_status"), NoArg("is_done"), NoArg("is_busy")>>

\* initialize() followed by the two accessors
ScenarioInit == <<NoArg("init"), NoArg("is_done"), NoArg("error")>>

\* configure(o, n) followed by independent reads of the two registers
ScenarioRoundTrip(o, n) ==
    <<Call("configure", <<o, n>>, 0), NoArg("get_opcode"), NoArg("get_num_bands")>>

\* initialize() called twice in a row
ScenarioInitTwice == <<NoArg("init"), NoArg("init")>>

\* launch(); wait_done(t1); wait_done(t2): a wait repeated after a wait
ScenarioRepoll(t1, t2) ==
    <<NoArg("launch"), Call("wait_done", <<>>, t1), Call("wait_done", <<>>, t2)>>

RepollScripts == {ScenarioRepoll(t1, t2) : t1, t2 \in 0 .. MaxTimeout}

Scripts ==
    {ScenarioDone, ScenarioError, ScenarioInspect, ScenarioInit,
     ScenarioInitTwice}
    \cup RepollScripts
    \cup {ScenarioRoundTrip(o, n) : o \in OpcodeValues, n \in BandsValues}

\* the caller may make the call now
Enter(o, w, t) ==
    /\ pc = "idle"
    /\ \/ mode = "free"
       \/ /\ script # <<>>
          /\ Head(script).op = o
          /\ Head(script).w = w
          /\ Head(script).t = t
    /\ op' = o
    /\ arg' = [w |-> w, t |-> t]
    /\ script' = IF mode = "scripted" THEN Tail(script) ELSE script
    /\ mode' = mode
    /\ UNCHANGED <<loop_i, simvars>>

\* a later step of the call in progress
Continue(o, at) ==
    /\ pc = at
    /\ op = o
    /\ UNCHANGED <<op, arg, script, mode, loop_i, simvars>>

Observed(o, a, r, st, log) ==
    [op |-> o, arg |-> a, ret |-> r, st |-> st, acc |-> log]

\* the call in progress returns r (a function returning void leaves no
\* value: Zero)
Return(r) ==
    /\ pc' = "idle"
    /\ ret' = r
    /\ hist' = IF mode = "scripted"
               THEN Append(hist, Observed(op', arg', r, status', acc'))
               ELSE hist

\* a call made of one register write, given as the action `write`
CallWrite(o, w, write) ==
    /\ Enter(o, w, 0)
    /\ write
    /\ Return(Zero)
    /\ UNCHANGED timeout_ciclos

\* a call made of one register read: r is what the accessor yields
CallRead(o, r) ==
    /\ Enter(o, <<>>, 0)
    /\ UNCHANGED <<regs, timeout_ciclos>>
    /\ acc' = r.log
    /\ Return(r.val)

Do_set_opcode ==
    \E code \in OpcodeValues :
        CallWrite("set_opcode", <<code>>, hsi_accel_set_opcode(<<>>, code))

Do_get_opcode ==
    \E bus \in BusViews : CallRead("get_opcode", hsi_accel_get_opcode(bus))

Do_set_num_bands ==
    \E nb \in BandsValues :
        CallWrite("set_num_bands", <<nb>>, hsi_accel_set_num_bands(<<>>, nb))

Do_get_num_bands ==
    \E bus \in BusViews : CallRead("get_num_bands", hsi_accel_get_num_bands(bus))

Do_start == CallWrite("start", <<>>, hsi_accel_start(<<>>))

Do_clear_done == CallWrite("clear_done", <<>>, hsi_accel_clear_done(<<>>))

Do_clear_error == CallWrite("clear_error", <<>>, hsi_accel_clear_error(<<>>))

Do_get_status ==
    \E bus \in BusViews : CallRead("get_status", hsi_accel_get_status(bus))

Do_is_done ==
    \E bus \in BusViews : CallRead("is_done", hsi_accel_is_done(bus))

Do_get_error ==
    \E bus \in BusViews : CallRead("get_error", hsi_accel_get_error(bus))

Do_is_busy ==
    \E bus \in BusViews : CallRead("is_busy", hsi_accel_is_busy(bus))

Do_error ==
    \E bus \in BusViews : CallRead("error", hsi_accel_error(bus))

Do_launch == CallWrite("launch", <<>>, hsi_accel_launch(<<>>))

---------------------------------------------------------------------------
(* hsi_accel.h: hsi_accel_init and hsi_accel_configure issue two writes;   *)
(* the device may step between them.                                       *)

\* hsi_accel_init, first statement: hsi_accel_clear_done()
hsi_accel_init_1 ==
    /\ Enter("init", <<>>, 0)
    /\ hsi_accel_clear_done(<<>>)
    /\ pc' = "init_1"
    /\ UNCHANGED <<ret, hist, timeout_ciclos>>

\* hsi_accel_init, second statement: hsi_accel_clear_error(), then return
hsi_accel_init_2 ==
    /\ Continue("init", "init_1")
    /\ hsi_accel_clear_error(acc)
    /\ Return(Zero)
    /\ UNCHANGED timeout_ciclos

\* a configure that holds its writes back while the device is BUSY
hsi_accel_configure_1_when_idle ==
    \E o \in OpcodeValues, n \in BandsValues :
        /\ HSI_ACCEL_STATUS_BUSY_BIT \notin status
        /\ Enter("configure", <<o, n>>, 0)
        /\ hsi_accel_set_opcode(<<>>, o)
        /\ pc' = "cfg_1"
        /\ UNCHANGED <<ret, hist, timeout_ciclos>>

\* hsi_accel_configure, first statement: hsi_accel_set_opcode(opcode)
hsi_accel_configure_1 ==
    \E o \in OpcodeValues, n \in BandsValues :
        /\ Enter("configure", <<o, n>>, 0)
        /\ hsi_accel_set_opcode(<<>>, o)
        /\ pc' = "cfg_1"
        /\ UNCHANGED <<ret, hist, timeout_ciclos>>

\* hsi_accel_configure, second statement: hsi_accel_set_num_bands(num_bands)
hsi_accel_configure_2 ==
    /\ Continue("configure", "cfg_1")
    /\ hsi_accel_set_num_bands(acc, arg.w[2])
    /\ Return(Zero)
    /\ UNCHANGED timeout_ciclos

---------------------------------------------------------------------------
(* hsi_accel.c: hsi_accel_wait_done                                        *)
(*     while (timeout_ciclos--) { if (hsi_accel_is_done()) return true; }  *)
(*     return false;                                                       *)

\* a call that gives up at once when the previous wait timed out
hsi_accel_wait_done_call_sticky ==
    \E t \in 0 .. MaxTimeout :
        /\ Enter("wait_done", <<>>, t)
        /\ timeout_ciclos' = IF op = "wait_done" /\ ret = Zero THEN 0 ELSE t
        /\ acc' = <<>>
        /\ pc' = "wait"
        /\ UNCHANGED <<regs, ret, hist>>

\* the call: the parameter receives the budget
hsi_accel_wait_done_call ==
    \E t \in 0 .. MaxTimeout :
        /\ Enter("wait_done", <<>>, t)
        /\ timeout_ciclos' = t
        /\ acc' = <<>>
        /\ pc' = "wait"
        /\ UNCHANGED <<regs, ret, hist>>

\* a loop that tests the budget after the decrement: while (--timeout_ciclos > 0)
WaitLoopTest_predecrement(t) == t > 1
\* a loop whose test an unsigned budget always passes: while (timeout_ciclos-- >= 0)
WaitLoopTest_nonnegative(t) == t >= 0

\* the loop test of the next pass: the budget is read, then decremented
WaitLoopTest(t) == t # 0

\* a pass that acknowledges the error when it sees DONE
hsi_accel_wait_done_pass_clearing ==
    /\ Continue("wait_done", "wait")
    /\ WaitLoopTest(timeout_ciclos)
    /\ \E bus \in BusViews :
          LET r == hsi_accel_is_done(bus)
          IN  IF r.val # Zero
              THEN /\ hsi_accel_clear_error(acc \o r.log)
                   /\ Return(One)
                   /\ timeout_ciclos' = 0
              ELSE /\ acc' = acc \o r.log
                   /\ timeout_ciclos' = timeout_ciclos - 1
                   /\ UNCHANGED <<regs, pc, ret, hist>>

\* one pass: the test succeeds, the budget is decremented, DONE is polled;
\* the local is gone once the function has returned
hsi_accel_wait_done_pass ==
    /\ Continue("wait_done", "wait")
    /\ WaitLoopTest(timeout_ciclos)
    /\ UNCHANGED regs
    /\ \E bus \in BusViews :
          LET r == hsi_accel_is_done(bus)
          IN  /\ acc' = acc \o r.log
              /\ IF r.val # Zero
                 THEN /\ Return(One)
                      /\ timeout_ciclos' = 0
                 ELSE /\ timeout_ciclos' = timeout_ciclos - 1
                      /\ UNCHANGED <<pc, ret, hist>>

\* the test fails: return false
hsi_accel_wait_done_exit ==
    /\ Continue("wait_done", "wait")
    /\ ~WaitLoopTest(timeout_ciclos)
    /\ UNCHANGED <<regs, acc>>
    /\ Return(Zero)
    /\ timeout_ciclos' = 0

---------------------------------------------------------------------------
(* The system *)

\* status the device may hold when the caller starts
InitialStatus ==
    {StatusWord(d, e, b, {}) : d \in BOOLEAN, e \in ErrCodes, b \in BOOLEAN}
    \cup {StatusWord(d, e, b, r) :
            d \in BOOLEAN, e \in FinishCodes, b \in BOOLEAN, r \in ReservedPatterns}

\* status the device may hold when a scripted caller starts: every prior
\* state for the script that begins by observing initialize(), an idle
\* device with DONE clear or left set for the scripts that repeat a wait, the
\* states without reserved bits and with the codes of FinishCodes for the
\* others
ScriptInitialStatus(s) ==
    IF s = ScenarioInit THEN InitialStatus
    ELSE IF s \in RepollScripts
    THEN {StatusWord(d, 0, FALSE, {}) : d \in BOOLEAN}
    ELSE {StatusWord(d, e, b, {}) : d \in BOOLEAN, e \in FinishCodes, b \in BOOLEAN}

\* the simulation harness before main runs: main_time = 0 (sim_main.cpp)
SimIdle ==
    /\ sim_pc = "start"
    /\ main_time = 0
    /\ n_eval = 0
    /\ gotFinish = FALSE
    /\ tfp = "none"
    /\ coverage = FALSE

Init ==
    /\ opcode = Zero
    /\ num_bands = Zero
    /\ loop_i = 0
    /\ SimIdle
    /\ pc = "idle"
    /\ op = "none"
    /\ arg = [w |-> <<>>, t |-> 0]
    /\ ret = Zero
    /\ acc = <<>>
    /\ timeout_ciclos = 0
    /\ \/ /\ mode = "free"
          /\ script = <<>>
          /\ status \in InitialStatus
          /\ hist = <<>>
       \/ /\ mode = "scripted"
          /\ script \in Scripts
          /\ status \in ScriptInitialStatus(script)
          /\ hist = <<Observed("begin", [w |-> <<>>, t |-> 0], Zero, status, <<>>)>>

Next ==
    \/ Do_set_opcode
    \/ Do_get_opcode
    \/ Do_set_num_bands
    \/ Do_get_num_bands
    \/ Do_start
    \/ Do_clear_done
    \/ Do_clear_error
    \/ Do_get_status
    \/ Do_is_done
    \/ Do_get_error
    \/ Do_is_busy
    \/ Do_error
    \/ Do_launch
    \/ hsi_accel_init_1
    \/ hsi_accel_init_2
    \/ hsi_accel_configure_1
    \/ hsi_accel_configure_2
    \/ hsi_accel_wait_done_call
    \/ hsi_accel_wait_done_pass
    \/ hsi_accel_wait_done_exit
    \/ DeviceFinish

Spec == Init /\ [][Next]_vars

\* the processor keeps executing the polling loop it has entered
FairSpec ==
    /\ Spec
    /\ WF_vars(hsi_accel_wait_done_pass)
    /\ WF_vars(hsi_accel_wait_done_exit)

---------------------------------------------------------------------------
(* The demo application: examples/hsi_accel/main.c.  main is a caller of   *)
(* hsi_accel_regs.h: a fixed sequence of accessor calls around one polling *)
(* loop.  It is a scripted caller whose script is the statement list of    *)
(* main, with the loop standing as one entry that the two loop actions     *)
(* consume.  The arguments of a printf are evaluated in an order the       *)
(* compiler chooses: the script is any of the orders.                      *)

\* the budget of main's polling loop, standing for its 1000000
MaxDemoPolls == 2

TEST_OPCODE    == NatWord(1)
TEST_NUM_BANDS == NatWord(2)

\* the orders in which the calls of S can be made
Orders(S) ==
    {f \in [1 .. Cardinality(S) -> S] :
        \A a, b \in 1 .. Cardinality(S) : f[a] = f[b] => a = b}

\* main, lines 21-41: the register test, START, the loop, the status read
MainTest ==
    <<Call("set_opcode", <<TEST_OPCODE>>, 0), NoArg("get_opcode"),
      Call("set_num_bands", <<TEST_NUM_BANDS>>, 0), NoArg("get_num_bands"),
      NoArg("start"), NoArg("poll_loop"), NoArg("get_status")>>

\* main, lines 51-53: the clearing of the flags and the status read
MainClear == <<NoArg("clear_done"), NoArg("clear_error"), NoArg("get_status")>>

\* main as a whole; lines 42-47 and 54-58 are the two printf calls
MainPrograms ==
    {MainTest \o first \o MainClear \o second :
        first \in Orders({NoArg("is_done"), NoArg("is_busy"), NoArg("get_error")}),
        second \in Orders({NoArg("is_done"), NoArg("get_error")})}

\* main is at its polling loop
AtPollLoop ==
    /\ pc = "idle"
    /\ mode = "scripted"
    /\ script # <<>>
    /\ Head(script).op = "poll_loop"

\* a loop test that lets the counter reach the limit
MainLoopTest_inclusive(n) == n <= MaxDemoPolls

\* for (int i = 0; i < 1000000; i++)
MainLoopTest(n) == n < MaxDemoPolls

\* one pass of the loop: if (hsi_accel_is_done()) break; else i++
main_poll_pass ==
    /\ AtPollLoop
    /\ MainLoopTest(loop_i)
    /\ \E bus \in BusViews :
         LET r == hsi_accel_is_done(bus)
         IN  /\ op' = "is_done"
             /\ arg' = [w |-> <<>>, t |-> 0]
             /\ acc' = r.log
             /\ UNCHANGED <<regs, timeout_ciclos, mode, simvars>>
             /\ Return(r.val)
             /\ IF r.val # Zero
                THEN script' = Tail(script) /\ loop_i' = loop_i
                ELSE script' = script /\ loop_i' = loop_i + 1

\* the loop test fails: the loop is left without DONE having been seen
main_poll_exit ==
    /\ AtPollLoop
    /\ ~MainLoopTest(loop_i)
    /\ script' = Tail(script)
    /\ UNCHANGED <<regs, pc, op, arg, ret, acc, timeout_ciclos, mode, hist,
                   loop_i, simvars>>

\* status the device may hold when main starts: as after reset, with the
\* DONE of an earlier operation still set, or with an operation in flight
DemoInitialStatus ==
    {StatusWord(FALSE, 0, FALSE, {}), StatusWord(TRUE, 0, FALSE, {}),
     StatusWord(FALSE, 0, TRUE, {})}

InitDemo ==
    /\ opcode = Zero
    /\ num_bands = Zero
    /\ loop_i = 0
    /\ SimIdle
    /\ pc = "idle"
    /\ op = "none"
    /\ arg = [w |-> <<>>, t |-> 0]
    /\ ret = Zero
    /\ acc = <<>>
    /\ timeout_ciclos = 0
    /\ mode = "scripted"
    /\ script \in MainPrograms
    /\ status \in DemoInitialStatus
    /\ hist = <<Observed("begin", [w |-> <<>>, t |-> 0], Zero, status, <<>>)>>

\* the statements of main
MainStep ==
    \/ Do_set_opcode
    \/ Do_get_opcode
    \/ Do_set_num_bands
    \/ Do_get_num_bands
    \/ Do_start
    \/ main_poll_pass
    \/ main_poll_exit
    \/ Do_get_status
    \/ Do_is_done
    \/ Do_is_busy
    \/ Do_get_error
    \/ Do_clear_done
    \/ Do_clear_error

NextDemo ==
    \/ MainStep
    \/ DeviceFinish

SpecDemo == InitDemo /\ [][NextDemo]_vars

\* the processor keeps executing main
FairDemo ==
    /\ SpecDemo
    /\ WF_vars(MainStep)

---------------------------------------------------------------------------
(* The simulation harness: sim/sim_main.cpp.  main opens the trace file,   *)
(* evaluates the DUT once at time 0, then advances the simulated time one  *)
(* unit per evaluation until the DUT signals finish or MAX_TIME is         *)
(* reached, writes the coverage and closes the trace.  An evaluation may   *)
(* or may not make the DUT signal finish.                                  *)

\* the limit of the simulated time, standing for the 1000000 of main
MAX_TIME == 60

\* the state of the driver and of the demo application, which the harness
\* does not touch
drivervars == <<opcode, num_bands, status, pc, op, arg, ret, acc,
                timeout_ciclos, mode, script, hist, loop_i>>

\* top = new Vhsi_accel_top; tfp = new VerilatedVcdC; tfp->open("dump.vcd")
sim_open ==
    /\ sim_pc = "start"
    /\ tfp' = "open"
    /\ sim_pc' = "eval"
    /\ UNCHANGED <<main_time, n_eval, gotFinish, coverage, drivervars>>

\* top->eval(); tfp->dump(main_time): the evaluation at time 0
sim_first_eval ==
    /\ sim_pc = "eval"
    /\ n_eval' = n_eval + 1
    /\ gotFinish' \in BOOLEAN
    /\ sim_pc' = "loop"
    /\ UNCHANGED <<main_time, tfp, coverage, drivervars>>

\* a loop test that goes on until both conditions have failed
SimLoopTest_either(gf, time) == ~gf \/ time < MAX_TIME

\* while (!Verilated::gotFinish() && main_time < MAX_TIME)
SimLoopTest(gf, time) == ~gf /\ time < MAX_TIME

\* the loop body: main_time++; Verilated::timeInc(1); top->eval();
\* tfp->dump(main_time)
sim_step ==
    /\ sim_pc = "loop"
    /\ SimLoopTest(gotFinish, main_time)
    /\ main_time' = main_time + 1
    /\ n_eval' = n_eval + 1
    /\ gotFinish' \in BOOLEAN
    /\ UNCHANGED <<sim_pc, tfp, coverage, drivervars>>

\* the loop test fails
sim_loop_exit ==
    /\ sim_pc = "loop"
    /\ ~SimLoopTest(gotFinish, main_time)
    /\ sim_pc' = "coverage"
    /\ UNCHANGED <<main_time, n_eval, gotFinish, tfp, coverage, drivervars>>

\* VerilatedCov::write("coverage.dat")
sim_coverage ==
    /\ sim_pc = "coverage"
    /\ coverage' = TRUE
    /\ sim_pc' = "close"
    /\ UNCHANGED <<main_time, n_eval, gotFinish, tfp, drivervars>>

\* tfp->close(); delete tfp; delete top; return 0
sim_close ==
    /\ sim_pc = "close"
    /\ tfp' = "closed"
    /\ sim_pc' = "done"
    /\ UNCHANGED <<main_time, n_eval, gotFinish, coverage, drivervars>>

InitSim ==
    /\ SimIdle
    /\ opcode = Zero
    /\ num_bands = Zero
    /\ status = Zero
    /\ loop_i = 0
    /\ pc = "idle"
    /\ op = "none"
    /\ arg = [w |-> <<>>, t |-> 0]
    /\ ret = Zero
    /\ acc = <<>>
    /\ timeout_ciclos = 0
    /\ mode = "free"
    /\ script = <<>>
    /\ hist = <<>>

NextSim ==
    \/ sim_open
    \/ sim_first_eval
    \/ sim_step
    \/ sim_loop_exit
    \/ sim_coverage
    \/ sim_close

SpecSim == InitSim /\ [][NextSim]_vars

\* the host keeps executing main
FairSim ==
    /\ SpecSim
    /\ WF_vars(NextSim)

---------------------------------------------------------------------------
(* Properties.  They are stated over what a caller and a bus monitor see:  *)
(* the access log, the returned values and the scripted caller's record,   *)
(* with the register map of the interface description written out          *)
(* (COMMAND at 0x08, STATUS at 0x0C; DONE bit 0, ERROR_CODE bits 1..4,     *)
(* BUSY bit 8).                                                            *)

IsStatusRead(a) == a.rw = "R" /\ a.off = 12
DoneIn(v) == 0 \in v
BusyIn(v) == 8 \in v
\* the ERROR_CODE field of a STATUS word, as a number 0..15
CodeIn(v) ==
    (IF 1 \in v THEN 1 ELSE 0) + (IF 2 \in v THEN 2 ELSE 0)
    + (IF 3 \in v THEN 4 ELSE 0) + (IF 4 \in v THEN 8 ELSE 0)
\* the number a returned word stands for, when it is below 16
ValueOf(w) ==
    (IF 0 \in w THEN 1 ELSE 0) + (IF 1 \in w THEN 2 ELSE 0)
    + (IF 2 \in w THEN 4 ELSE 0) + (IF 3 \in w THEN 8 ELSE 0)

\* the scripted caller has seen the first k calls of script s return
Played(s, k) ==
    /\ mode = "scripted"
    /\ Len(hist) >= k + 1
    /\ \A i \in 1 .. k : hist[i + 1].op = s[i].op

\* wait_done has returned
WaitReturned == pc = "idle" /\ op = "wait_done"
\* the polls of the running or returned wait_done that showed DONE
DonePolls == {i \in 1 .. Len(acc) : DoneIn(acc[i].val)}

(* C1: with N the first STATUS read at which the device presents DONE,     *)
(* wait_done(t) returns completed when t >= N (it made exactly N reads,    *)
(* the N-th showing DONE) and timed out when t < N (it made t reads, none  *)
(* showing DONE, and issued no write); and after initialize();             *)
(* configure(1, 2); launch() on a device that presents STATUS = 0x00000001 *)
(* at once, wait_done(1) returns completed, error_code() returns 0 and     *)
(* is_busy() returns false.                                                *)
C1_WaitDoneOutcome ==
    /\ WaitReturned =>
          IF DonePolls # {}
          THEN /\ ret = One
               /\ DonePolls = {Len(acc)}
               /\ Len(acc) <= arg.t
          ELSE /\ ret = Zero
               /\ Len(acc) = arg.t
               /\ \A i \in 1 .. Len(acc) : IsStatusRead(acc[i])
    /\ (Played(ScenarioDone, 3) /\ hist[4].st = One) =>
          /\ Len(hist) >= 5 => hist[5].op = "wait_done" /\ hist[5].ret = One
          /\ Len(hist) >= 6 => hist[6].op = "error" /\ hist[6].ret = Zero
          /\ (Len(hist) >= 7 /\ hist[7].op = "is_busy") => hist[7].ret = Zero

\* the scenario of C1 has been played to its end
C1_Witness ==
    /\ Played(ScenarioDone, 6)
    /\ hist[4].st = One
    /\ hist[5].arg.t = 1
    /\ hist[5].ret = One

(* C2: wait_done(0) returns timed out and performs no register access,     *)
(* whatever the device state, DONE already asserted included.              *)
C2_ZeroBudget ==
    (op = "wait_done" /\ arg.t = 0) =>
        /\ acc = <<>>
        /\ pc = "idle" => ret = Zero

\* wait_done(0) has returned timed out on a device that shows DONE asserted
\* and no operation in flight
C2_Witness ==
    /\ WaitReturned
    /\ arg.t = 0
    /\ ret = Zero
    /\ DoneIn(status)
    /\ ~BusyIn(status)

C3_Budget ==
    op = "wait_done" =>
        /\ Len(acc) <= arg.t
        /\ \A i \in 1 .. Len(acc) : IsStatusRead(acc[i])
        /\ \A i \in 1 .. Len(acc) : DoneIn(acc[i].val) => i = Len(acc) /\ pc = "idle"
        /\ (pc = "idle" /\ DonePolls = {}) => Len(acc) = arg.t /\ ret = Zero

(* C3: wait_done(t) terminates, never performs more than t STATUS reads,   *)
(* performs no read after one that showed DONE, and, when no read shows    *)
(* DONE, performs exactly t reads and returns timed out.                   *)
C3_WaitDoneTerminates ==
    /\ []C3_Budget
    /\ (pc = "wait") ~> (pc = "idle")

\* wait_done has consumed the largest budget and timed out
C3_Witness ==
    /\ WaitReturned
    /\ arg.t = MaxTimeout
    /\ Len(acc) = MaxTimeout
    /\ ret = Zero


\* the status accessors alone, on every code and with every single
\* reserved bit set
ReservedBits == (5 .. 7) \cup (9 .. 31)
DecodeStatus ==
    {StatusWord(d, e, b, r) :
        d \in BOOLEAN, e \in ErrCodes, b \in BOOLEAN,
        r \in {{}} \cup {{k} : k \in ReservedBits}}

InitDecode ==
    /\ loop_i = 0
    /\ SimIdle
    /\ opcode = Zero
    /\ num_bands = Zero
    /\ status \in DecodeStatus
    /\ pc = "idle"
    /\ op = "none"
    /\ arg = [w |-> <<>>, t |-> 0]
    /\ ret = Zero
    /\ acc = <<>>
    /\ timeout_ciclos = 0
    /\ mode = "free"
    /\ script = <<>>
    /\ hist = <<>>

NextDecode ==
    \/ Do_get_status
    \/ Do_is_done
    \/ Do_get_error
    \/ Do_is_busy
    \/ Do_error

SpecDecode == InitDecode /\ [][NextDecode]_vars

(* C4 as stated: after initialize(), is_done() reports false and           *)
(* error_code() reports 0 for every prior device state, an operation in    *)
(* flight included.                                                        *)
C4_InitClearsAlways ==
    /\ Played(ScenarioInit, 2) => hist[3].ret = Zero
    /\ Played(ScenarioInit, 3) => hist[4].ret = Zero

(* C4, amended: after initialize(), is_done() reports false and            *)
(* error_code() reports 0 for every prior device state in which no         *)
(* operation is in flight (BUSY = 0): DONE set or not, any ERROR_CODE      *)
(* 0..15, any reserved bits.                                               *)
C4_InitClearsWhenIdle ==
    /\ (Played(ScenarioInit, 2) /\ ~BusyIn(hist[1].st)) => hist[3].ret = Zero
    /\ (Played(ScenarioInit, 3) /\ ~BusyIn(hist[1].st)) => hist[4].ret = Zero

\* initialize() and both accessors have returned on a device that held
\* DONE = 1, ERROR_CODE = 15, BUSY = 0
C4_Witness ==
    /\ Played(ScenarioInit, 3)
    /\ DoneIn(hist[1].st)
    /\ CodeIn(hist[1].st) = 15
    /\ ~BusyIn(hist[1].st)
    /\ hist[3].ret = Zero
    /\ hist[4].ret = Zero

C5_ClearStep ==
    /\ Do_clear_done =>
          /\ acc' = <<Access("W", 8, {1})>>
          /\ status' = status \ {0}
    /\ Do_clear_error =>
          /\ acc' = <<Access("W", 8, {2})>>
          /\ status' = status \ (1 .. 4)

C5_Scenario ==
    (Played(ScenarioError, 5) /\ DoneIn(hist[6].st) /\ ~BusyIn(hist[6].st)) =>
        /\ Played(ScenarioError, 6) => hist[7].st = hist[6].st \ (1 .. 4)
        /\ Played(ScenarioError, 7) => hist[8].ret = Zero
        /\ Played(ScenarioError, 8) => hist[9].ret = One
        /\ Played(ScenarioError, 9) => hist[10].st = hist[7].st \ {0}
        /\ Played(ScenarioError, 10) => hist[11].ret = Zero

(* C5: clear_done() issues one COMMAND write of exactly bit 1 and          *)
(* deasserts DONE leaving every other STATUS bit, ERROR_CODE included, as  *)
(* it was; clear_error() issues one COMMAND write of exactly bit 2 and     *)
(* zeroes ERROR_CODE leaving every other STATUS bit, DONE included, as it  *)
(* was; after clear_error() on a finished operation is_done() stays true   *)
(* until clear_done() is called.                                           *)
C5_ClearCommands == [][C5_ClearStep]_vars /\ []C5_Scenario

\* the scenario with STATUS = 0x00000203 at the return of wait_done
C5_Witness ==
    /\ Played(ScenarioError, 10)
    /\ hist[5].st = {0, 1, 9}
    /\ hist[6].ret = One
    /\ hist[7].st = {0, 9}
    /\ hist[9].ret = One
    /\ hist[10].st = {9}

(* C6: is_done() returns bit 0 of the STATUS word it read, error_code()    *)
(* the 4-bit value of bits 1..4 (in 0..15) and is_busy() bit 8, whatever   *)
(* the reserved bits 5..7 and 9..31 hold; for 0x00000203 they return true, *)
(* 1 and false.                                                            *)
C6_StatusDecoding ==
    (pc = "idle" /\ op \in {"is_done", "get_error", "error", "is_busy"}) =>
        /\ Len(acc) = 1
        /\ op = "is_done" => ret = (IF DoneIn(acc[1].val) THEN One ELSE Zero)
        /\ op = "is_busy" => ret = (IF BusyIn(acc[1].val) THEN One ELSE Zero)
        /\ op \in {"get_error", "error"} =>
              /\ ret \subseteq 0 .. 3
              /\ ValueOf(ret) = CodeIn(acc[1].val)
        /\ acc[1].val = {0, 1, 9} =>
              ret = (IF op = "is_busy" THEN Zero ELSE One)

\* error_code() has decoded 0x00000203
C6_Witness ==
    /\ pc = "idle"
    /\ op = "error"
    /\ acc = <<Access("R", 12, {0, 1, 9})>>
    /\ ret = One

C7_WriteStep ==
    /\ Do_set_opcode => opcode' = arg'.w[1] /\ num_bands' = num_bands
    /\ Do_set_num_bands => num_bands' = arg'.w[1] /\ opcode' = opcode
    /\ hsi_accel_configure_1 => opcode' = arg'.w[1] /\ num_bands' = num_bands
    /\ hsi_accel_configure_2 => num_bands' = arg.w[2] /\ opcode' = opcode

C7_RoundTrip ==
    /\ Played(ScenarioRoundTrip(Zero, Zero), 2) => hist[3].ret = hist[2].arg.w[1]
    /\ Played(ScenarioRoundTrip(Zero, Zero), 3) => hist[4].ret = hist[2].arg.w[2]

(* C7: configure(opcode, num_bands) followed by independent reads of       *)
(* OPCODE and NUM_BANDS returns exactly the two values written, and a      *)
(* write to one of the two registers leaves the other as it was.           *)
C7_ConfigureRoundTrip == [][C7_WriteStep]_vars /\ []C7_RoundTrip

\* configure(0xFFFFFFFF, 2) has been read back
C7_Witness ==
    /\ Played(ScenarioRoundTrip(Zero, Zero), 3)
    /\ hist[2].arg.w = <<AllOnes, {1}>>
    /\ hist[3].ret = AllOnes
    /\ hist[4].ret = {1}

C8_WaitStep ==
    (hsi_accel_wait_done_call \/ hsi_accel_wait_done_pass \/ hsi_accel_wait_done_exit)
        => UNCHANGED regs

C8_OnlyReads ==
    /\ op = "wait_done" => \A i \in 1 .. Len(acc) : acc[i].rw = "R" /\ acc[i].off = 12
    /\ (Played(ScenarioError, 5) /\ ~BusyIn(hist[5].st)) =>
          ValueOf(hist[6].ret) = CodeIn(hist[5].st)

(* C8: wait_done issues only STATUS reads and changes no register on any   *)
(* path, and error_code() called right after it returns the code the       *)
(* device holds, which may be nonzero after a completed wait.              *)
C8_WaitDoneKeepsError == [][C8_WaitStep]_vars /\ []C8_OnlyReads

\* wait_done returned completed with ERROR_CODE = 15 and error_code()
\* then returned 15
C8_Witness ==
    /\ Played(ScenarioError, 5)
    /\ hist[5].ret = One
    /\ CodeIn(hist[5].st) = 15
    /\ hist[6].ret = {0, 1, 2, 3}

C9_AccessorStep ==
    /\ Do_get_status =>
          acc' = <<Access("R", 12, status)>> /\ ret' = status
    /\ Do_is_done =>
          /\ acc' = <<Access("R", 12, status)>>
          /\ ret' = (IF DoneIn(status) THEN One ELSE Zero)
    /\ Do_is_busy =>
          /\ acc' = <<Access("R", 12, status)>>
          /\ ret' = (IF BusyIn(status) THEN One ELSE Zero)
    /\ (Do_get_error \/ Do_error) =>
          /\ acc' = <<Access("R", 12, status)>>
          /\ ValueOf(ret') = CodeIn(status)

(* C9: every call of get_status(), is_done(), is_busy() and error_code()   *)
(* issues exactly one STATUS read and decodes the value the device holds   *)
(* at that read, nothing being kept from an earlier call.                  *)
C9_FreshRead == [][C9_AccessorStep]_vars

\* the caller read a STATUS with BUSY set, then is_done() returned false
\* and is_busy() returned false: the operation finished between the calls
C9_Witness ==
    /\ Played(ScenarioInspect, 4)
    /\ BusyIn(hist[3].ret)
    /\ ~DoneIn(hist[3].ret)
    /\ hist[4].ret = Zero
    /\ hist[5].ret = Zero

(* C10: launch() is one step that issues exactly one register access, a    *)
(* write of 0x00000001 (START alone) to COMMAND, and it can be called in   *)
(* every device state, BUSY or DONE included.                              *)
C10_LaunchWritesStart ==
    /\ op = "launch" =>
          /\ pc = "idle"
          /\ acc = <<Access("W", 8, {0})>>
    /\ (pc = "idle" /\ mode = "free") => ENABLED Do_launch

\* launch() has returned with DONE still set from the previous operation
\* and the new one in flight
C10_Witness ==
    /\ pc = "idle"
    /\ op = "launch"
    /\ DoneIn(status)
    /\ BusyIn(status)

---------------------------------------------------------------------------
\* the accesses initialize() issues: CLEAR_DONE alone, then CLEAR_ERROR
\* alone, both to COMMAND
InitAccesses == <<Access("W", 8, {1}), Access("W", 8, {2})>>

\* a step of initialize() leaves OPCODE and NUM_BANDS as they were
C11_InitStep ==
    (hsi_accel_init_1 \/ hsi_accel_init_2) =>
        /\ opcode' = opcode
        /\ num_bands' = num_bands

\* the access log of initialize(): no read, no START, nothing but the two
\* clear commands in their order
C11_InitAccesses ==
    /\ pc = "init_1" => acc = SubSeq(InitAccesses, 1, 1)
    /\ (op = "init" /\ pc = "idle") => acc = InitAccesses

(* C11 as stated, its last part: after initialize() was called twice in a  *)
(* row the device is in the state the first call left.  It fails when an   *)
(* operation in flight completes while the calls run: the second call      *)
(* then clears the DONE and ERROR_CODE the completion has set.             *)
C11_TwiceAsOnce ==
    Played(ScenarioInitTwice, 2) => hist[3].st = hist[2].st

\* the same, for the runs in which the device completes no operation
\* between the first call and the second return
C11_TwiceAsOnceQuiet ==
    (/\ Played(ScenarioInitTwice, 2)
     /\ BusyIn(hist[1].st) => BusyIn(hist[3].st))
    => hist[3].st = hist[2].st

(* C11: initialize() issues exactly two accesses, a write of CLEAR_DONE    *)
(* alone and then a write of CLEAR_ERROR alone to COMMAND; it never sets   *)
(* START, reads no register and leaves OPCODE and NUM_BANDS unchanged;     *)
(* called twice in a row it leaves the device in the state one call        *)
(* leaves, provided no operation in flight completes while the calls run.  *)
C11_InitializeEffect ==
    /\ [][C11_InitStep]_vars
    /\ [](C11_InitAccesses /\ C11_TwiceAsOnceQuiet)

\* DONE and an error code were set and nothing was in flight; initialize()
\* was called twice; both calls issued the two clear commands and the
\* second left the state of the first
C11_Witness ==
    /\ Played(ScenarioInitTwice, 2)
    /\ DoneIn(hist[1].st)
    /\ CodeIn(hist[1].st) # 0
    /\ ~BusyIn(hist[1].st)
    /\ hist[2].acc = InitAccesses
    /\ hist[3].acc = InitAccesses
    /\ hist[3].st = hist[2].st
    /\ hist[2].st # hist[1].st

---------------------------------------------------------------------------
(* C12: COMMAND (offset 0x08) is write-only for the interface: whatever    *)
(* operations are called and in whatever order, no access the interface    *)
(* issues is a read of COMMAND.                                            *)
C12_NoCommandRead ==
    \A k \in 1 .. Len(acc) : acc[k].rw = "R" => acc[k].off # 8

\* a caller went through initialize, configure, launch, wait_done, the
\* accessors and the two clears; the calls issued reads and COMMAND writes
C12_Witness ==
    /\ Played(ScenarioError, 10)
    /\ \E k \in 2 .. 11 : \E n \in 1 .. Len(hist[k].acc) :
           hist[k].acc[n].rw = "W" /\ hist[k].acc[n].off = 8
    /\ \E k \in 2 .. 11 : \E n \in 1 .. Len(hist[k].acc) :
           hist[k].acc[n].rw = "R"
    /\ acc # <<>>
    /\ acc[1].rw = "R"

---------------------------------------------------------------------------
(* The demo application seen from the bus: the accesses of all the calls   *)
(* main has made so far, in their order.                                   *)

RECURSIVE AccessesOf(_)
AccessesOf(h) ==
    IF h = <<>> THEN <<>> ELSE Head(h).acc \o AccessesOf(Tail(h))

BusTrace == AccessesOf(hist)

IsWriteTo(a, off) == a.rw = "W" /\ a.off = off
IsCommand(a, bit) == IsWriteTo(a, 8) /\ bit \in a.val
\* a configuration write: to OPCODE (0x00) or to NUM_BANDS (0x04)
IsConfigWrite(a) == IsWriteTo(a, 0) \/ IsWriteTo(a, 4)

(* C13 as stated, its first ordering: the flags are cleared (CLEAR_DONE    *)
(* and CLEAR_ERROR written, as initialize() does) before the first         *)
(* configuration write.  main makes no such writes before it configures.   *)
C13_ClearedBeforeConfigure ==
    \A k \in 1 .. Len(BusTrace) :
        IsConfigWrite(BusTrace[k]) =>
            /\ \E m \in 1 .. k - 1 : IsCommand(BusTrace[m], 1)
            /\ \E m \in 1 .. k - 1 : IsCommand(BusTrace[m], 2)

(* C13: the demo application writes OPCODE and then NUM_BANDS before it    *)
(* writes START, and writes START before it first reads STATUS; it writes  *)
(* no command before its configuration writes, and it clears the flags     *)
(* only after START and a STATUS read, CLEAR_DONE immediately followed by  *)
(* CLEAR_ERROR.                                                            *)
C13_DemoOrder ==
    LET tr == BusTrace
    IN  \A k \in 1 .. Len(tr) :
            /\ IsCommand(tr[k], 0) =>
                   \E m \in 1 .. k - 1 : \E n \in m + 1 .. k - 1 :
                       /\ tr[m] = Access("W", 0, TEST_OPCODE)
                       /\ tr[n] = Access("W", 4, TEST_NUM_BANDS)
            /\ IsStatusRead(tr[k]) =>
                   \E m \in 1 .. k - 1 : IsCommand(tr[m], 0)
            /\ IsConfigWrite(tr[k]) =>
                   \A m \in 1 .. k - 1 : ~IsWriteTo(tr[m], 8)
            /\ IsCommand(tr[k], 1) =>
                   /\ \E m \in 1 .. k - 1 : IsCommand(tr[m], 0)
                   /\ IsStatusRead(tr[k - 1])
            /\ IsCommand(tr[k], 2) => tr[k - 1] = Access("W", 8, {1})

\* main has run to its end on a device that was idle: it polled STATUS
\* more than once before DONE showed, and cleared the flags last
C13_Witness ==
    /\ script = <<>>
    /\ hist[1].st = Zero
    /\ loop_i >= 1
    /\ \E k \in 1 .. Len(BusTrace) : IsCommand(BusTrace[k], 0)
    /\ \E k \in 1 .. Len(BusTrace) : IsCommand(BusTrace[k], 2)
    /\ DoneIn(BusTrace[5 + loop_i + 1].val)

---------------------------------------------------------------------------
\* what a wait with budget t returns when its successive STATUS reads
\* yield the words of v: a function of the two and of nothing else
RECURSIVE WaitOutcome(_, _)
WaitOutcome(t, v) ==
    IF t = 0 \/ v = <<>> THEN Zero
    ELSE IF DoneIn(Head(v).val) THEN One
    ELSE WaitOutcome(t - 1, Tail(v))

\* a wait starts with the budget it was given and an empty log, whatever
\* the previous call returned; the timed-out exit issues no access
C14_WaitStep ==
    /\ hsi_accel_wait_done_call =>
          /\ timeout_ciclos' = arg'.t
          /\ acc' = <<>>
          /\ UNCHANGED regs
    /\ hsi_accel_wait_done_exit =>
          /\ ret' = Zero
          /\ UNCHANGED <<regs, acc>>

\* every returned wait of a scripted caller, the wait that follows a
\* timed-out wait in particular (Played compares the functions called, the
\* budgets are those recorded)
C14_EachWait ==
    /\ \A k \in 2 .. Len(hist) :
          (mode = "scripted" /\ hist[k].op = "wait_done") =>
              /\ hist[k].ret = WaitOutcome(hist[k].arg.t, hist[k].acc)
              /\ \A n \in 1 .. Len(hist[k].acc) : IsStatusRead(hist[k].acc[n])
              /\ hist[k].ret = Zero => Len(hist[k].acc) = hist[k].arg.t
    /\ (Played(ScenarioRepoll(0, 0), 3) /\ hist[3].ret = Zero) =>
          /\ Len(hist[4].acc) <= hist[4].arg.t
          /\ hist[4].ret = One <=>
                 \E n \in 1 .. Len(hist[4].acc) : DoneIn(hist[4].acc[n].val)

(* C14: a timeout is not sticky and nothing is retried: a wait that times  *)
(* out issues no START and no clear command; a wait_done(t') called after  *)
(* a wait_done(t) that timed out returns completed exactly when one of its *)
(* own (at most t') polls shows DONE; the result of every call is a        *)
(* function of its budget and of the STATUS words read during that call.   *)
C14_TimeoutNotSticky == [][C14_WaitStep]_vars /\ []C14_EachWait

\* wait_done(1) timed out on an operation in flight, and the wait_done(2)
\* that followed returned completed at its second poll
C14_Witness ==
    /\ Played(ScenarioRepoll(1, 2), 3)
    /\ hist[3].arg.t = 1
    /\ hist[4].arg.t = 2
    /\ hist[3].ret = Zero
    /\ Len(hist[3].acc) = 1
    /\ hist[4].ret = One
    /\ Len(hist[4].acc) = 2

---------------------------------------------------------------------------
\* the COMMAND words the interface writes and the functions that write them
C15_OneCommandBit ==
    \A k \in 1 .. Len(acc) :
        IsWriteTo(acc[k], 8) =>
            /\ acc[k].val \in {{0}, {1}, {2}}
            /\ acc[k].val = {0} => op \in {"launch", "start"}
            /\ acc[k].val = {1} => op \in {"clear_done", "init"}
            /\ acc[k].val = {2} => op \in {"clear_error", "init"}

\* a step that changes ERROR_CODE is the device completing an operation or
\* a COMMAND write of launch, start, clear_error or initialize: the steps of
\* configure, wait_done, the accessors and clear_done leave it as it is
C15_KeepsErrorStep ==
    CodeIn(status') # CodeIn(status) =>
        \/ DeviceFinish
        \/ /\ op' \in {"launch", "start", "clear_error", "init"}
           /\ acc' # <<>>
           /\ IsWriteTo(acc'[Len(acc')], 8)

(* C15: every word the interface writes to COMMAND has exactly one of the  *)
(* bits 0, 1, 2 set and no other bit; START is written only by launch()    *)
(* and start(), CLEAR_DONE only by clear_done() and initialize(),          *)
(* CLEAR_ERROR only by clear_error() and initialize(); so configure,       *)
(* launch, wait_done, the accessors and clear_done never issue CLEAR_ERROR *)
(* and a set ERROR_CODE is cleared by none of configure, wait_done, the    *)
(* accessors and clear_done.                                               *)
C15_CommandWords == [][C15_KeepsErrorStep]_vars /\ []C15_OneCommandBit

\* an operation ended with an error code; the caller read it, then called
\* clear_error(), which wrote CLEAR_ERROR alone, then clear_done(), which
\* wrote CLEAR_DONE alone
C15_Witness ==
    /\ Played(ScenarioError, 10)
    /\ hist[4].acc = <<Access("W", 8, {0})>>
    /\ CodeIn(hist[6].st) # 0
    /\ hist[7].acc = <<Access("W", 8, {2})>>
    /\ CodeIn(hist[7].st) = 0
    /\ hist[10].acc = <<Access("W", 8, {1})>>

---------------------------------------------------------------------------
\* a step of configure() leaves STATUS as it is
C16_ConfigureStep ==
    (hsi_accel_configure_1 \/ hsi_accel_configure_2) => status' = status

\* the access log of configure(o, n), and the device state playing no part
\* in whether its steps can be taken
C16_ConfigureAccesses ==
    /\ pc = "cfg_1" => acc = <<Access("W", 0, arg.w[1])>>
    /\ (op = "configure" /\ pc = "idle") =>
          acc = <<Access("W", 0, arg.w[1]), Access("W", 4, arg.w[2])>>
    /\ (pc = "idle" /\ mode = "free") => ENABLED hsi_accel_configure_1
    /\ pc = "cfg_1" => ENABLED hsi_accel_configure_2

(* C16: configure(opcode, num_bands) issues exactly two accesses, a write  *)
(* of opcode to OPCODE and then a write of num_bands to NUM_BANDS; it      *)
(* writes nothing to COMMAND, reads no register, and does the same whether *)
(* or not the device is BUSY.                                              *)
C16_ConfigureWrites == [][C16_ConfigureStep]_vars /\ []C16_ConfigureAccesses

\* configure(0xFFFFFFFF, 2) has returned while an operation is in flight
C16_Witness ==
    /\ op = "configure"
    /\ pc = "idle"
    /\ arg.w = <<AllOnes, {1}>>
    /\ BusyIn(status)
    /\ Len(acc) = 2
    /\ opcode = AllOnes
    /\ num_bands = {1}

---------------------------------------------------------------------------
\* where the accesses of the interface go
C17_AccessTargets ==
    \A k \in 1 .. Len(acc) :
        /\ acc[k].rw = "W" => acc[k].off \in {0, 4, 8}
        /\ acc[k].rw = "R" => acc[k].off \in {0, 4, 12}

\* a step that changes STATUS is the device completing an operation or the
\* device reacting to the COMMAND write the step has just logged
C17_StatusStep ==
    status' # status =>
        \/ DeviceFinish
        \/ /\ pc # "wait"
           /\ acc' # <<>>
           /\ IsWriteTo(acc'[Len(acc')], 8)

(* C17: the interface never writes STATUS (0x0C) or FIFO_STATUS (0x10):    *)
(* every write goes to OPCODE, NUM_BANDS or COMMAND and every read to      *)
(* OPCODE, NUM_BANDS or STATUS, so STATUS changes only by the device's     *)
(* reaction to a COMMAND write or by the device's own progress.            *)
C17_StatusReadOnly == [][C17_StatusStep]_vars /\ []C17_AccessTargets

\* after initialize, configure and launch the operation was in flight; it
\* completed by itself before the wait returned, and the accessors then
\* read the STATUS the device had set
C17_Witness ==
    /\ Played(ScenarioDone, 6)
    /\ BusyIn(hist[4].st)
    /\ ~DoneIn(hist[4].st)
    /\ DoneIn(hist[5].st)
    /\ ~BusyIn(hist[5].st)
    /\ hist[3].acc[2].off = 4
    /\ hist[7].acc[1].off = 12

---------------------------------------------------------------------------
(* The demo application's wait.  In the caller's record the five calls of  *)
(* lines 21-35 are hist[2..6]; the polls of the loop follow from hist[7],  *)
(* up to the get_status of line 41.                                        *)

\* main has left its polling loop
LoopLeft == Len(hist) >= 6 /\ Len(script) <= 9

\* the polls the loop has made so far
LoopPolls ==
    IF LoopLeft THEN Len(hist) - 6 - (9 - Len(script)) ELSE Len(hist) - 6

\* the word the k-th poll of the loop read
PollWord(k) == hist[6 + k].acc[1].val

\* how often main has written the command bit so far
CommandCount(bit) ==
    Cardinality({k \in 1 .. Len(BusTrace) : IsCommand(BusTrace[k], bit)})

C18_Polls ==
    /\ AtPollLoop =>
          /\ LoopPolls = loop_i
          /\ LoopPolls <= MaxDemoPolls
          /\ \A k \in 1 .. LoopPolls : ~DoneIn(PollWord(k))
    /\ LoopLeft =>
          /\ LoopPolls <= MaxDemoPolls
          /\ \A k \in 1 .. LoopPolls :
                /\ hist[6 + k].op = "is_done"
                /\ IsStatusRead(hist[6 + k].acc[1])
                /\ k < LoopPolls => ~DoneIn(PollWord(k))
          /\ \/ LoopPolls >= 1 /\ DoneIn(PollWord(LoopPolls))
             \/ LoopPolls = MaxDemoPolls
    /\ (LoopLeft /\ script = <<>>) =>
          LET g == 6 + LoopPolls + 1
          IN  /\ Len(hist) = g + 8
              /\ hist[g].op = "get_status"
              /\ \A k \in g .. g + 3 : hist[k].acc = <<Access("R", 12, hist[k].acc[1].val)>>
              /\ hist[g + 4].acc = <<Access("W", 8, {1})>>
              /\ hist[g + 5].acc = <<Access("W", 8, {2})>>
              /\ CommandCount(1) = 1
              /\ CommandCount(2) = 1

(* C18: the demo application's wait for DONE ends on every device          *)
(* behaviour: its loop makes at most 1000000 (here MaxDemoPolls) is_done   *)
(* polls and stops at the first poll that shows DONE; whether DONE showed  *)
(* or the polls ran out, main goes on to read STATUS and then to issue     *)
(* clear_done followed by clear_error, each exactly once, and reaches its  *)
(* end.                                                                    *)
C18_DemoWaitEnds ==
    /\ []C18_Polls
    /\ AtPollLoop ~> (script = <<>>)

\* the device never showed DONE: the polls ran out, and main has read
\* STATUS, cleared the flags and reached its end all the same
C18_Witness ==
    /\ LoopLeft
    /\ script = <<>>
    /\ LoopPolls = MaxDemoPolls
    /\ \A k \in 1 .. LoopPolls : ~DoneIn(PollWord(k))
    /\ CommandCount(1) = 1
    /\ CommandCount(2) = 1

---------------------------------------------------------------------------
\* the loop of the harness has ended
SimLoopEnded == sim_pc \in {"coverage", "close", "done"}

\* what a step of the harness does to the simulated time: the loop body
\* adds exactly 1 and evaluates the DUT once, no other step changes it, and
\* nothing is evaluated once finish is signalled or MAX_TIME is reached
C19_TimeStep ==
    /\ sim_step => main_time' = main_time + 1 /\ n_eval' = n_eval + 1
    /\ main_time' # main_time => sim_step
    /\ ((gotFinish \/ main_time >= MAX_TIME) /\ sim_pc = "loop") =>
          /\ main_time' = main_time
          /\ n_eval' = n_eval

C19_TimeBounded ==
    /\ sim_pc = "start" => main_time = 0
    /\ main_time <= MAX_TIME
    /\ sim_pc \notin {"start", "eval"} => n_eval = main_time + 1
    /\ SimLoopEnded => (gotFinish \/ main_time = MAX_TIME)
    /\ coverage => SimLoopEnded /\ sim_pc # "coverage"
    /\ tfp = "closed" => coverage /\ sim_pc = "done"
    /\ sim_pc \in {"eval", "loop"} => tfp = "open"

(* C19: the loop of the simulation harness stops as soon as the DUT        *)
(* signals finish or the simulated time reaches MAX_TIME (1000000):        *)
(* main_time starts at 0, grows by exactly 1 with each evaluation of the   *)
(* loop, never exceeds MAX_TIME, and the loop always ends; the coverage is *)
(* written and the trace closed only after the loop has ended.             *)
C19_SimLoopEnds ==
    /\ [][C19_TimeStep]_vars
    /\ []C19_TimeBounded
    /\ <>(sim_pc = "done")

\* the DUT never signalled finish: the loop ran until MAX_TIME and the
\* harness wrote the coverage and closed the trace
C19_Witness ==
    /\ sim_pc = "done"
    /\ ~gotFinish
    /\ main_time = MAX_TIME
    /\ n_eval = MAX_TIME + 1
    /\ coverage
    /\ tfp = "closed"

===========================================================================
